---- MODULE Spec2Model ----
(***************************************************************************)
(* Expense tracker REST API: the expense router, its middleware chain and  *)
(* the seven expense handlers over the Expense collection.                 *)
(*                                                                         *)
(* Amounts are integers in thousandths of the currency unit (0.01 = 10),   *)
(* so that toFixed(2) is a real rounding.  Dates are integer ticks; a      *)
(* calendar month holds TicksPerMonth ticks and a year twelve months.      *)
(* ObjectIds are the positive integers in creation order.  The title of an *)
(* expense is carried through add and update but no query reads it.        *)
(***************************************************************************)
EXTENDS Integers, Sequences, FiniteSets, TLC

VARIABLES store, nextId, ownerOf, req, pageLog

vars == <<store, nextId, ownerOf, req, pageLog>>

(***************************************************************************)
(* Bounds of the model                                                     *)
(***************************************************************************)
NumSlots == 2          \* requests in flight at once
MaxId == 2             \* expenses ever created in the concurrent model
MaxSummaryDocs == 3    \* size of the collection in the summary model
MaxStatsDocs == 7      \* size of the collection in the statistics model
MaxListDocs == 3       \* size of the collection in the listing model
TicksPerMonth == 2     \* distinguishable instants per calendar month

(***************************************************************************)
(* Program constants                                                       *)
(***************************************************************************)
MinAmount == 10        \* isFloat({ min: 0.01 })
DefaultPage == 1       \* page = 1
DefaultLimit == 10     \* limit = 10
MonthlyLimit == 6      \* { $limit: 6 }

None == "none"          \* an absent string (undefined)
NoNum == 0 - 1          \* an absent number or date (undefined)
BadNum == 0 - 2         \* a value that is no number, or no ISO 8601 date
Slots == 1..NumSlots
Users == {"alice", "bob"}

CategoryEnum ==
    {"Food", "Transportation", "Entertainment", "Healthcare", "Shopping",
     "Bills", "Education", "Travel", "Other"}

(***************************************************************************)
(* Dates.  Tick 0 is the first instant of November 2023, so that a handful *)
(* of months crosses a year boundary.                                      *)
(***************************************************************************)
MonthIndex(d) == 10 + (d \div TicksPerMonth)
Year(d) == 2023 + (MonthIndex(d) \div 12)
Month(d) == (MonthIndex(d) % 12) + 1

(***************************************************************************)
(* Sequence and set helpers                                                *)
(***************************************************************************)
Range(s) == {s[i] : i \in DOMAIN s}

Min2(a, b) == IF a < b THEN a ELSE b

\* The sum of f[x] over the x of S
RECURSIVE SumOver(_, _)
SumOver(S, f) ==
    IF S = {} THEN 0
    ELSE LET x == CHOOSE y \in S : TRUE IN f[x] + SumOver(S \ {x}, f)

RECURSIVE SeqSum(_)
SeqSum(s) == IF s = <<>> THEN 0 ELSE Head(s) + SeqSum(Tail(s))

\* Every arrangement of S that agrees with the relation Before (a set of
\* pairs <<x, y>>: x may stand ahead of y): the outcomes of a sort whose
\* order among ties is unspecified.
RECURSIVE Orders(_, _)
Orders(S, Before) ==
    IF S = {} THEN {<<>>}
    ELSE UNION { { <<x>> \o t : t \in Orders(S \ {x}, Before) } :
                 x \in {y \in S : \A z \in S : <<y, z>> \in Before} }

(***************************************************************************)
(* The Expense collection                                                  *)
(***************************************************************************)
EmptyStore == [i \in {} |-> None]

Expense(title, amount, category, date, user) ==
    [title |-> title, amount |-> amount, category |-> category,
     date |-> date, user |-> user]

Insert(st, id, doc) ==
    [i \in DOMAIN st \cup {id} |-> IF i = id THEN doc ELSE st[i]]

Remove(st, id) == [i \in DOMAIN st \ {id} |-> st[i]]

\* A query filter: user always, category and the date bounds when given.
Filter(user, category, gte, lte) ==
    [user |-> user, category |-> category, gte |-> gte, lte |-> lte]

Matches(doc, f) ==
    /\ doc.user = f.user
    /\ f.category = None \/ doc.category = f.category
    /\ f.gte = NoNum \/ doc.date >= f.gte
    /\ f.lte = NoNum \/ doc.date <= f.lte

Find(st, f) == {i \in DOMAIN st : Matches(st[i], f)}

\* findOne without the user in its filter
FindOneAnyUser(st, id, user) == {i \in DOMAIN st : i = id}

FindOne(st, id, user) == {i \in DOMAIN st : i = id /\ st[i].user = user}

countDocuments(st, f) == Cardinality(Find(st, f))

\* .sort({ date: -1 }): newest first, ties in any order
SortDateDesc(st, ids) ==
    Orders(ids, {p \in ids \X ids : st[p[1]].date >= st[p[2]].date})

Skip(s, n) == IF n >= Len(s) THEN <<>> ELSE SubSeq(s, n + 1, Len(s))

Limit(s, n) == SubSeq(s, 1, Min2(n, Len(s)))

\* A document as a response carries it
WithId(st, i) ==
    [id |-> i, title |-> st[i].title, amount |-> st[i].amount,
     category |-> st[i].category, date |-> st[i].date, user |-> st[i].user]

Docs(st, order) == [k \in DOMAIN order |-> WithId(st, order[k])]

(***************************************************************************)
(* Aggregation stages of getExpenseStats                                   *)
(***************************************************************************)
AmountOf(st) == [i \in DOMAIN st |-> st[i].amount]

\* { $group: { _id: null, ... } }: one group, none for an empty input.
\* avgAmount is the exact quotient, kept as <<numerator, denominator>>.
GroupAll(st, ids) ==
    IF ids = {} THEN <<>>
    ELSE << [totalAmount |-> SumOver(ids, AmountOf(st)),
             totalExpenses |-> Cardinality(ids),
             avgAmount |-> <<SumOver(ids, AmountOf(st)), Cardinality(ids)>>] >>

\* { $group: { _id: '$category', ... } }
GroupByCategory(st, ids) ==
    { [key |-> c,
       totalAmount |-> SumOver({i \in ids : st[i].category = c}, AmountOf(st)),
       count |-> Cardinality({i \in ids : st[i].category = c})] :
      c \in {st[i].category : i \in ids} }

\* { $group: { _id: { year: { $year: '$date' }, month: { $month: '$date' } } } }
MonthKey(d) == [year |-> Year(d), month |-> Month(d)]

GroupByMonth(st, ids) ==
    { [key |-> k,
       totalAmount |-> SumOver({i \in ids : MonthKey(st[i].date) = k}, AmountOf(st)),
       count |-> Cardinality({i \in ids : MonthKey(st[i].date) = k})] :
      k \in {MonthKey(st[i].date) : i \in ids} }

\* { $sort: { totalAmount: -1 } }
SortTotalDesc(groups) ==
    Orders(groups, {p \in groups \X groups : p[1].totalAmount >= p[2].totalAmount})

\* { $sort: { '_id.month': -1 } }: the year left out of the sort
SortMonthOnlyDesc(groups) ==
    Orders(groups,
           {p \in groups \X groups : p[1].key.month >= p[2].key.month})

\* { $sort: { '_id.year': -1, '_id.month': -1 } }
SortMonthDesc(groups) ==
    Orders(groups,
           {p \in groups \X groups :
               \/ p[1].key.year > p[2].key.year
               \/ /\ p[1].key.year = p[2].key.year
                  /\ p[1].key.month >= p[2].key.month})

ZeroTotal == [totalAmount |-> 0, totalExpenses |-> 0, avgAmount |-> <<0, 1>>]

(***************************************************************************)
(* Data shaping of getExpenseSummary                                       *)
(***************************************************************************)
\* Number.prototype.toFixed(2) read back by parseFloat: the nearest hundredth
\* (no amount of the model lies halfway between two hundredths).
toFixed2(x) == ((x + 5) \div 10) * 10

HasKey(totals, c) == \E k \in DOMAIN totals : totals[k].category = c

\* The forEach loop with = in place of += for a category already seen
RECURSIVE categoryTotalsOverwrite(_, _)
categoryTotalsOverwrite(docs, totals) ==
    IF docs = <<>> THEN totals
    ELSE LET e == Head(docs)
             k == CHOOSE j \in DOMAIN totals : totals[j].category = e.category
         IN IF HasKey(totals, e.category)
            THEN categoryTotalsOverwrite(Tail(docs),
                     [totals EXCEPT ![k].total = e.amount])
            ELSE categoryTotalsOverwrite(Tail(docs),
                     Append(totals, [category |-> e.category,
                                     total |-> e.amount]))

\* The forEach loop: categoryTotals as its keys in insertion order
RECURSIVE categoryTotals(_, _)
categoryTotals(docs, totals) ==
    IF docs = <<>> THEN totals
    ELSE LET e == Head(docs)
             k == CHOOSE j \in DOMAIN totals : totals[j].category = e.category
         IN IF HasKey(totals, e.category) /\ totals[k].total # 0
            THEN categoryTotals(Tail(docs),
                     [totals EXCEPT ![k].total = @ + e.amount])
            ELSE IF HasKey(totals, e.category)
            THEN categoryTotals(Tail(docs),
                     [totals EXCEPT ![k].total = e.amount])
            ELSE categoryTotals(Tail(docs),
                     Append(totals, [category |-> e.category,
                                     total |-> e.amount]))

\* Array.prototype.sort((a, b) => b.totalAmount - a.totalAmount): stable
RECURSIVE SortBreakdown(_)
SortBreakdown(s) ==
    IF s = <<>> THEN <<>>
    ELSE LET rest == SortBreakdown(SubSeq(s, 1, Len(s) - 1))
             x == s[Len(s)]
             ahead == {k \in DOMAIN rest : rest[k].totalAmount >= x.totalAmount}
             n == Cardinality(ahead)
         IN SubSeq(rest, 1, n) \o <<x>> \o SubSeq(rest, n + 1, Len(rest))

categoryBreakdown(totals) ==
    SortBreakdown([k \in DOMAIN totals |->
                      [category |-> totals[k].category,
                       totalAmount |-> toFixed2(totals[k].total)]])

totalAmountOf(docs) == SeqSum([k \in DOMAIN docs |-> docs[k].amount])

(***************************************************************************)
(* Requests.  A request holds what the client sent (method, path segment,  *)
(* token, body, query), what the middleware attached (user, errors), where *)
(* it stands (stage: the next entry of its route's chain; pc: the await    *)
(* the handler is suspended at) and its response (status, data).           *)
(* History kept per request: ran (the chain entries run so far), touched   *)
(* (ids of the documents its queries returned, counted, wrote or deleted), *)
(* accesses (store accesses made), first (the store at the first access)   *)
(* and torn (a later access met a store other than first).                 *)
(***************************************************************************)
Body(title, amount, category, date) ==
    [title |-> title, amount |-> amount, category |-> category, date |-> date]

Query(category, startDate, endDate, page, limit) ==
    [category |-> category, startDate |-> startDate, endDate |-> endDate,
     page |-> page, limit |-> limit]

NoBody == Body(None, NoNum, None, NoNum)
NoQuery == Query(None, NoNum, NoNum, NoNum, NoNum)

Idle ==
    [method |-> None, seg |-> None, id |-> 0, token |-> None,
     body |-> NoBody, query |-> NoQuery, user |-> None, errors |-> FALSE,
     stage |-> 0, pc |-> "idle", doc |-> None, status |-> 0, data |-> None,
     ran |-> <<>>, touched |-> {}, accesses |-> 0, first |-> EmptyStore,
     torn |-> FALSE]

Request(method, seg, id, token, body, query) ==
    [Idle EXCEPT !.method = method, !.seg = seg, !.id = id, !.token = token,
                 !.body = body, !.query = query, !.stage = 1, !.pc = "start"]

(***************************************************************************)
(* The expense router: the routes in the order they are registered.  A     *)
(* path is its one segment: "/", "/stats", "/summary", "/oid" (a string    *)
(* that casts to an ObjectId, req.id) or "/junk" (one that does not).      *)
(***************************************************************************)
RouteEntry(method, path, chain) ==
    [method |-> method, path |-> path, chain |-> chain]

\* The routes with DELETE /:id registered without protect
routerUnprotectedDelete ==
    << RouteEntry("POST", "/", <<"protect", "validateExpense", "addExpense">>),
       RouteEntry("GET", "/", <<"protect", "getExpenses">>),
       RouteEntry("GET", "/stats", <<"protect", "getExpenseStats">>),
       RouteEntry("GET", "/summary", <<"protect", "getExpenseSummary">>),
       RouteEntry("GET", "/:id", <<"protect", "getExpenseById">>),
       RouteEntry("PUT", "/:id",
                  <<"protect", "validateExpenseUpdate", "updateExpense">>),
       RouteEntry("DELETE", "/:id", <<"deleteExpense">>) >>

router ==
    << RouteEntry("POST", "/", <<"protect", "validateExpense", "addExpense">>),
       RouteEntry("GET", "/", <<"protect", "getExpenses">>),
       RouteEntry("GET", "/stats", <<"protect", "getExpenseStats">>),
       RouteEntry("GET", "/summary", <<"protect", "getExpenseSummary">>),
       RouteEntry("GET", "/:id", <<"protect", "getExpenseById">>),
       RouteEntry("PUT", "/:id",
                  <<"protect", "validateExpenseUpdate", "updateExpense">>),
       RouteEntry("DELETE", "/:id", <<"protect", "deleteExpense">>) >>

PathMatches(path, seg) == IF path = "/:id" THEN seg # "/" ELSE seg = path

RouteMatches(route, method, seg) ==
    route.method = method /\ PathMatches(route.path, seg)

HasRoute(method, seg) ==
    \E k \in DOMAIN router : RouteMatches(router[k], method, seg)

\* The first registered route that matches
Chain(q) ==
    LET k == CHOOSE j \in DOMAIN router :
                 /\ RouteMatches(router[j], q.method, q.seg)
                 /\ \A i \in 1..(j - 1) :
                        ~RouteMatches(router[i], q.method, q.seg)
    IN router[k].chain

Handlers ==
    {"addExpense", "getExpenses", "getExpenseStats", "getExpenseSummary",
     "getExpenseById", "updateExpense", "deleteExpense"}

\* The chain entry the request waits to run
Current(q) ==
    IF q.stage \in DOMAIN Chain(q) /\ q.pc # "done" /\ q.pc # "idle"
    THEN Chain(q)[q.stage] ELSE None

At(r, name, pc) ==
    /\ req[r].pc = pc
    /\ Current(req[r]) = name

\* next(): hand the request to the following chain entry
Pass(q) == [q EXCEPT !.stage = @ + 1, !.ran = Append(@, Current(q))]

\* The handler is entered
Enter(q) ==
    IF q.pc = "start" THEN [q EXCEPT !.ran = Append(@, Current(q))] ELSE q

\* res.status(status).json(data): the response ends the request
Respond(q, status, data) ==
    [q EXCEPT !.pc = "done", !.status = status, !.data = data,
              !.first = EmptyStore]

\* One access of the store, which met the documents ids
Access(q, ids) ==
    [q EXCEPT !.accesses = @ + 1,
              !.touched = @ \cup ids,
              !.first = IF q.accesses = 0 THEN store ELSE @,
              !.torn = @ \/ (q.accesses > 0 /\ store # q.first)]

Set(r, q) == req' = [req EXCEPT ![r] = q]

(***************************************************************************)
(* Middleware                                                              *)
(***************************************************************************)
\* protect (middleware/authMiddleware): a request whose token names a user
\* goes on with req.user set; any other is answered 401 at once.
protect(r) ==
    /\ At(r, "protect", "start")
    /\ IF req[r].token \in Users
       THEN Set(r, [Pass(req[r]) EXCEPT !.user = req[r].token])
       ELSE Set(r, Respond(Enter(req[r]), 401, None))
    /\ UNCHANGED <<store, nextId, ownerOf, pageLog>>

ValidTitle(t) == t # None /\ t # ""
ValidAmount(a) == a # NoNum /\ a # BadNum /\ a >= MinAmount
ValidCategory(c) == c \in CategoryEnum
ValidDate(d) == d # BadNum

\* validateExpense: title, amount and category are required, date optional
validateExpense(b) ==
    /\ ValidTitle(b.title)
    /\ ValidAmount(b.amount)
    /\ ValidCategory(b.category)
    /\ b.date = NoNum \/ ValidDate(b.date)

\* validateExpenseUpdate: every field is optional
validateExpenseUpdate(b) ==
    /\ b.title = None \/ ValidTitle(b.title)
    /\ b.amount = NoNum \/ ValidAmount(b.amount)
    /\ b.category = None \/ ValidCategory(b.category)
    /\ b.date = NoNum \/ ValidDate(b.date)

\* The validation chain records its errors on the request and calls next()
validate(r) ==
    /\ req[r].pc = "start"
    /\ Current(req[r]) \in {"validateExpense", "validateExpenseUpdate"}
    /\ LET ok == IF Current(req[r]) = "validateExpense"
                 THEN validateExpense(req[r].body)
                 ELSE validateExpenseUpdate(req[r].body)
       IN Set(r, [Pass(req[r]) EXCEPT !.errors = ~ok])
    /\ UNCHANGED <<store, nextId, ownerOf, pageLog>>

(***************************************************************************)
(* Handlers.  Each action is the handler's code from one await to the      *)
(* next; a handler entered without req.user throws on req.user._id inside  *)
(* its try block and answers 500.                                          *)
(***************************************************************************)
\* The fields the detail responses pick from a document
Details(doc, id) ==
    [id |-> id, title |-> doc.title, amount |-> doc.amount,
     category |-> doc.category, date |-> doc.date]

DetailsOf(docs) == [k \in DOMAIN docs |-> Details(docs[k], docs[k].id)]

\* The instants new Date() can return: the clock ticks at every creation
Now == {nextId}

\* addExpense: Expense.create with date: date || new Date()
addExpense(r) ==
    /\ At(r, "addExpense", "start")
    /\ LET q == Enter(req[r])
           b == q.body
       IN IF q.errors
          THEN /\ Set(r, Respond(q, 400, None))
               /\ UNCHANGED <<store, nextId, ownerOf>>
          ELSE IF q.user = None
          THEN /\ Set(r, Respond(q, 500, None))
               /\ UNCHANGED <<store, nextId, ownerOf>>
          ELSE \E now \in Now :
                 LET doc == Expense(b.title, b.amount, b.category,
                                    IF b.date = NoNum THEN now ELSE b.date,
                                    q.user)
                 IN /\ store' = Insert(store, nextId, doc)
                    /\ ownerOf' = Insert(ownerOf, nextId, q.user)
                    /\ nextId' = nextId + 1
                    /\ Set(r, Respond(Access(q, {nextId}), 201,
                                      WithId(store', nextId)))
    /\ UNCHANGED pageLog

ListFilter(q) ==
    Filter(q.user, q.query.category, q.query.startDate, q.query.endDate)

pageNum(q) == IF q.query.page = NoNum THEN DefaultPage ELSE q.query.page

limitNum(q) == IF q.query.limit = NoNum THEN DefaultLimit ELSE q.query.limit

\* Math.ceil(a / b) for b > 0
Ceil(a, b) == (a + b - 1) \div b

\* getExpenses up to its first await: find().sort().skip().limit()
getExpensesFind(r) ==
    /\ At(r, "getExpenses", "start")
    /\ LET q == Enter(req[r])
           skip == (pageNum(q) - 1) * limitNum(q)
       IN IF q.user = None
          THEN Set(r, Respond(q, 500, None))
          ELSE \E order \in SortDateDesc(store, Find(store, ListFilter(q))) :
                 LET page == Limit(Skip(order, skip), limitNum(q))
                 IN Set(r, [Access(q, Range(page)) EXCEPT
                               !.pc = "count", !.data = Docs(store, page)])
    /\ UNCHANGED <<store, nextId, ownerOf, pageLog>>

\* pageLog, kept when its "on" is set: the pages a client has collected of one
\* listing (a query but for its page), in the order it asked for them
NoLog == [on |-> FALSE, base |-> NoQuery, pages |-> <<>>, totalPages |-> 0]

Base(query) == [query EXCEPT !.page = NoNum]

Logged(log, q, pagination, ids) ==
    IF ~log.on THEN log
    ELSE IF log.base = Base(q.query) /\ pagination.currentPage = Len(log.pages) + 1
    THEN [log EXCEPT !.pages = Append(@, ids),
                     !.totalPages = pagination.totalPages]
    ELSE IF pagination.currentPage = 1
    THEN [log EXCEPT !.base = Base(q.query), !.pages = <<ids>>,
                     !.totalPages = pagination.totalPages]
    ELSE [log EXCEPT !.base = NoQuery, !.pages = <<>>, !.totalPages = 0]

\* getExpenses from countDocuments to the response
getExpensesCount(r) ==
    /\ At(r, "getExpenses", "count")
    /\ LET q == req[r]
           totalExpenses == countDocuments(store, ListFilter(q))
           totalPages == Ceil(totalExpenses, limitNum(q))
           pagination == [currentPage |-> pageNum(q),
                          totalPages |-> totalPages,
                          totalExpenses |-> totalExpenses,
                          hasNextPage |-> pageNum(q) < totalPages,
                          hasPrevPage |-> pageNum(q) > 1]
       IN /\ Set(r, Respond(Access(q, Find(store, ListFilter(q))), 200,
                            [data |-> q.data, pagination |-> pagination]))
          /\ pageLog' = Logged(pageLog, q, pagination,
                               [k \in DOMAIN q.data |-> q.data[k].id])
    /\ UNCHANGED <<store, nextId, ownerOf>>

\* getExpenseById: findOne({ _id, user }); a segment that is no ObjectId
\* fails the cast before any query is sent
getExpenseById(r) ==
    /\ At(r, "getExpenseById", "start")
    /\ LET q == Enter(req[r])
           found == FindOne(store, q.id, q.user)
       IN IF q.user = None THEN Set(r, Respond(q, 500, None))
          ELSE IF q.seg # "/oid" THEN Set(r, Respond(q, 400, None))
          ELSE IF found = {} THEN Set(r, Respond(Access(q, {}), 404, None))
          ELSE Set(r, Respond(Access(q, found), 200,
                              Details(store[q.id], q.id)))
    /\ UNCHANGED <<store, nextId, ownerOf, pageLog>>

StatsFilter(q) == Filter(q.user, None, q.query.startDate, q.query.endDate)

\* getExpenseStats up to its first await: the totals pipeline
getExpenseStatsTotal(r) ==
    /\ At(r, "getExpenseStats", "start")
    /\ LET q == Enter(req[r])
           ids == Find(store, StatsFilter(q))
       IN IF q.user = None
          THEN Set(r, Respond(q, 500, None))
          ELSE Set(r, [Access(q, ids) EXCEPT
                          !.pc = "category",
                          !.data = [totalStats |-> GroupAll(store, ids)]])
    /\ UNCHANGED <<store, nextId, ownerOf, pageLog>>

\* getExpenseStats: the per-category pipeline
getExpenseStatsCategory(r) ==
    /\ At(r, "getExpenseStats", "category")
    /\ LET q == req[r]
           ids == Find(store, StatsFilter(q))
       IN \E categoryStats \in SortTotalDesc(GroupByCategory(store, ids)) :
            Set(r, [Access(q, ids) EXCEPT
                       !.pc = "monthly",
                       !.data = [totalStats |-> q.data.totalStats,
                                 categoryStats |-> categoryStats]])
    /\ UNCHANGED <<store, nextId, ownerOf, pageLog>>

\* getExpenseStats: the monthly pipeline and the response
getExpenseStatsMonthly(r) ==
    /\ At(r, "getExpenseStats", "monthly")
    /\ LET q == req[r]
           ids == Find(store, StatsFilter(q))
           totalStats == q.data.totalStats
       IN \E sorted \in SortMonthDesc(GroupByMonth(store, ids)) :
            Set(r, Respond(Access(q, ids), 200,
                     [total |-> IF Len(totalStats) > 0 THEN totalStats[1]
                                ELSE ZeroTotal,
                      byCategory |-> q.data.categoryStats,
                      monthly |-> Limit(sorted, MonthlyLimit)]))
    /\ UNCHANGED <<store, nextId, ownerOf, pageLog>>

\* updateExpense up to the await of findOne({ _id, user })
updateExpenseFind(r) ==
    /\ At(r, "updateExpense", "start")
    /\ LET q == Enter(req[r])
           found == FindOne(store, q.id, q.user)
       IN IF q.errors THEN Set(r, Respond(q, 400, None))
          ELSE IF q.user = None THEN Set(r, Respond(q, 500, None))
          ELSE IF q.seg # "/oid" THEN Set(r, Respond(q, 400, None))
          ELSE IF found = {} THEN Set(r, Respond(Access(q, {}), 404, None))
          ELSE Set(r, [Access(q, found) EXCEPT
                          !.pc = "save", !.doc = store[q.id]])
    /\ UNCHANGED <<store, nextId, ownerOf, pageLog>>

\* The loaded document after the four assignments
Assigned(doc, b) ==
    [doc EXCEPT !.title = IF b.title # None /\ b.title # "" THEN b.title ELSE @,
                !.amount = IF b.amount # NoNum /\ b.amount # 0 THEN b.amount ELSE @,
                !.category = IF b.category # None /\ b.category # ""
                             THEN b.category ELSE @,
                !.date = IF b.date # NoNum THEN b.date ELSE @]

\* Document.save(): the paths that changed since the load are written to
\* the stored document; a document no longer stored fails the save
Saved(stored, loaded, new) ==
    [stored EXCEPT !.title = IF new.title # loaded.title THEN new.title ELSE @,
                   !.amount = IF new.amount # loaded.amount THEN new.amount ELSE @,
                   !.category = IF new.category # loaded.category
                                THEN new.category ELSE @,
                   !.date = IF new.date # loaded.date THEN new.date ELSE @]

\* updateExpense from the assignments through save() to the response
updateExpenseSave(r) ==
    /\ At(r, "updateExpense", "save")
    /\ LET q == req[r]
           new == Assigned(q.doc, q.body)
       IN IF q.id \notin DOMAIN store
          THEN /\ Set(r, Respond(Access(q, {}), 500, None))
               /\ UNCHANGED store
          ELSE /\ store' = [store EXCEPT ![q.id] = Saved(@, q.doc, new)]
               /\ Set(r, Respond(Access(q, {q.id}), 200, Details(new, q.id)))
    /\ UNCHANGED <<nextId, ownerOf, pageLog>>

\* deleteExpense up to the await of findOne({ _id, user })
deleteExpenseFind(r) ==
    /\ At(r, "deleteExpense", "start")
    /\ LET q == Enter(req[r])
           found == FindOne(store, q.id, q.user)
       IN IF q.user = None THEN Set(r, Respond(q, 500, None))
          ELSE IF q.seg # "/oid" THEN Set(r, Respond(q, 400, None))
          ELSE IF found = {} THEN Set(r, Respond(Access(q, {}), 404, None))
          ELSE Set(r, [Access(q, found) EXCEPT
                          !.pc = "delete", !.doc = store[q.id]])
    /\ UNCHANGED <<store, nextId, ownerOf, pageLog>>

\* deleteExpense: findByIdAndDelete(req.params.id) and the response
deleteExpenseDelete(r) ==
    /\ At(r, "deleteExpense", "delete")
    /\ LET q == req[r]
       IN /\ store' = Remove(store, q.id)
          /\ Set(r, Respond(Access(q, {q.id} \cap DOMAIN store), 200,
                            Details(q.doc, q.id)))
    /\ UNCHANGED <<nextId, ownerOf, pageLog>>

\* getExpenseSummary taking its count from a second query
getExpenseSummaryCounting(r) ==
    /\ At(r, "getExpenseSummary", "start")
    /\ LET q == Enter(req[r])
           ids == Find(store, Filter(q.user, None, NoNum, NoNum))
       IN IF q.user = None
          THEN Set(r, Respond(q, 500, None))
          ELSE \E order \in SortDateDesc(store, ids) :
                 LET expenses == Docs(store, order)
                 IN Set(r, Respond(Access(Access(q, ids), ids), 200,
                          [totalExpenses |-> Cardinality(ids),
                           totalAmount |-> toFixed2(totalAmountOf(expenses)),
                           categoryBreakdown |->
                               categoryBreakdown(categoryTotals(expenses, <<>>)),
                           expenses |-> DetailsOf(expenses)]))
    /\ UNCHANGED <<store, nextId, ownerOf, pageLog>>

\* getExpenseSummary: find({ user }).sort({ date: -1 }) and the totals
getExpenseSummary(r) ==
    /\ At(r, "getExpenseSummary", "start")
    /\ LET q == Enter(req[r])
           ids == Find(store, Filter(q.user, None, NoNum, NoNum))
       IN IF q.user = None
          THEN Set(r, Respond(q, 500, None))
          ELSE \E order \in SortDateDesc(store, ids) :
                 LET expenses == Docs(store, order)
                 IN Set(r, Respond(Access(q, ids), 200,
                          [totalExpenses |-> Len(expenses),
                           totalAmount |-> toFixed2(totalAmountOf(expenses)),
                           categoryBreakdown |->
                               categoryBreakdown(categoryTotals(expenses, <<>>)),
                           expenses |-> DetailsOf(expenses)]))
    /\ UNCHANGED <<store, nextId, ownerOf, pageLog>>

\* A request of the set R arrives in a slot that is free or whose request
\* has been answered
arrive(r, R) ==
    /\ req[r].pc \in {"idle", "done"}
    /\ \E q \in R : HasRoute(q.method, q.seg) /\ Set(r, q)
    /\ UNCHANGED <<store, nextId, ownerOf, pageLog>>

\* One step of the request in slot r, whatever it waits for
step(r) ==
    \/ protect(r)
    \/ validate(r)
    \/ addExpense(r)
    \/ getExpensesFind(r)
    \/ getExpensesCount(r)
    \/ getExpenseById(r)
    \/ getExpenseStatsTotal(r)
    \/ getExpenseStatsCategory(r)
    \/ getExpenseStatsMonthly(r)
    \/ updateExpenseFind(r)
    \/ updateExpenseSave(r)
    \/ deleteExpenseFind(r)
    \/ deleteExpenseDelete(r)
    \/ getExpenseSummary(r)

(***************************************************************************)
(* Spec: requests of two users, and unauthenticated ones, served           *)
(* concurrently over a collection that starts empty.                       *)
(***************************************************************************)
\* Slot 1 serves every kind of request of alice and requests without a valid
\* token; the other slots serve the writes and single reads of alice and of
\* bob.  The users are interchangeable and two reads do not affect each
\* other, so every race of a request with a write is among these.
Ids == 1..MaxId

\* POST requests that may still create a document
Creating ==
    Cardinality({s \in Slots : req[s].method = "POST" /\ req[s].pc = "start"})

ValidAdd == Body("lunch", 14, "Food", NoNum)
InvalidAdd == Body("lunch", BadNum, "Food", NoNum)
ValidUpdate == Body(None, NoNum, "Travel", NoNum)
InvalidUpdate == Body("", NoNum, None, NoNum)

Writes(tokens, adds, updates) ==
    (IF nextId + Creating <= MaxId
     THEN {Request("POST", "/", 0, t, b, NoQuery) : t \in tokens, b \in adds}
     ELSE {})
    \cup {Request("PUT", "/oid", id, t, b, NoQuery) :
             id \in Ids, t \in tokens, b \in updates}
    \cup {Request("DELETE", "/oid", id, t, NoBody, NoQuery) :
             id \in Ids, t \in tokens}
    \cup {Request("GET", "/oid", id, t, NoBody, NoQuery) :
             id \in Ids, t \in tokens}

Reads(tokens) ==
    {Request("GET", seg, 0, t, NoBody, NoQuery) :
        seg \in {"/", "/stats", "/summary"}, t \in tokens}
    \cup {Request("DELETE", "/junk", 0, t, NoBody, NoQuery) : t \in tokens}

Anonymous ==
    {Request("POST", "/", 0, None, ValidAdd, NoQuery),
     Request("PUT", "/oid", 1, None, ValidUpdate, NoQuery),
     Request("DELETE", "/oid", 1, None, NoBody, NoQuery),
     Request("GET", "/oid", 1, None, NoBody, NoQuery)}
    \cup Reads({None})

Requests(r) ==
    IF r = 1
    THEN Writes({"alice"}, {ValidAdd, InvalidAdd}, {ValidUpdate, InvalidUpdate})
         \cup Reads({"alice"}) \cup Anonymous
    ELSE Writes(Users, {ValidAdd}, {ValidUpdate})

Init ==
    /\ store = EmptyStore
    /\ nextId = 1
    /\ ownerOf = EmptyStore
    /\ req = [r \in Slots |-> Idle]
    /\ pageLog = NoLog

Next == \E r \in Slots : arrive(r, Requests(r)) \/ step(r)

Spec == Init /\ [][Next]_vars

(***************************************************************************)
(* The data-shaping handlers over collections given at the start.  One     *)
(* client, alice, asks; the collection holds expenses of alice and of bob  *)
(* and no request changes it.                                              *)
(***************************************************************************)
\* The collections whose documents 1..n (n up to max) are drawn from docs
Stores(docs, max) == UNION {[1..n -> docs] : n \in 0..max}

Given(stores, log) ==
    /\ store \in stores
    /\ nextId = Cardinality(DOMAIN store) + 1
    /\ ownerOf = [i \in DOMAIN store |-> store[i].user]
    /\ req = [r \in Slots |-> Idle]
    /\ pageLog = log

\* SpecSummary: GET /summary.  Amounts of whole cents (10, 20) and of a
\* fraction of a cent (14); no sum of them lies halfway between two cents.
SummaryDocs ==
    {Expense("lunch", a, c, 0, u) :
        a \in {10, 14, 20}, c \in {"Food", "Travel"}, u \in Users}

InitSummary == Given(Stores(SummaryDocs, MaxSummaryDocs), NoLog)

NextSummary ==
    \/ arrive(1, {Request("GET", "/summary", 0, "alice", NoBody, NoQuery)})
    \/ protect(1)
    \/ getExpenseSummary(1)

SpecSummary == InitSummary /\ [][NextSummary]_vars

\* SpecStats: GET /stats.  Document i was created in the i-th month, except
\* that the second may follow the first within the first month.
StatsKinds ==
    {<<"alice", "Food", 10>>, <<"alice", "Travel", 14>>, <<"bob", "Food", 26>>}

StatsDate(i, paired) ==
    IF paired /\ i >= 2
    THEN IF i = 2 THEN 1 ELSE (i - 2) * TicksPerMonth
    ELSE (i - 1) * TicksPerMonth

StatsStores ==
    {[i \in DOMAIN kinds |->
         Expense("lunch", kinds[i][3], kinds[i][2], StatsDate(i, paired),
                 kinds[i][1])] :
       kinds \in UNION {[1..n -> StatsKinds] : n \in 0..MaxStatsDocs},
       paired \in BOOLEAN}

StatsRequests ==
    {Request("GET", "/stats", 0, "alice", NoBody,
             Query(None, startDate, endDate, NoNum, NoNum)) :
        startDate \in {NoNum, TicksPerMonth},
        endDate \in {NoNum, 5 * TicksPerMonth}}

InitStats == Given(StatsStores, NoLog)

NextStats ==
    \/ arrive(1, StatsRequests)
    \/ protect(1)
    \/ getExpenseStatsTotal(1)
    \/ getExpenseStatsCategory(1)
    \/ getExpenseStatsMonthly(1)

SpecStats == InitStats /\ [][NextStats]_vars

\* SpecList: GET /.  The client asks for the first page of a listing (page
\* left out), or for the page after those it has collected of the listing
\* it is on.
ListDocs ==
    {Expense("lunch", 14, c, d, u) :
        c \in {"Food", "Travel"}, d \in {0, 1}, u \in Users}

ListBases ==
    {Query(c, NoNum, NoNum, NoNum, limit) :
        c \in {None, "Food"}, limit \in {1, 2, NoNum}}
    \cup {Query(None, 1, 1, NoNum, 1), Query(None, 0, 1, NoNum, 2)}

ListRequests ==
    {Request("GET", "/", 0, "alice", NoBody, b) : b \in ListBases}
    \cup (IF 0 < Len(pageLog.pages) /\ Len(pageLog.pages) < pageLog.totalPages
          THEN {Request("GET", "/", 0, "alice", NoBody,
                        [pageLog.base EXCEPT !.page = Len(pageLog.pages) + 1])}
          ELSE {})

InitList == Given(Stores(ListDocs, MaxListDocs), [NoLog EXCEPT !.on = TRUE])

NextList ==
    \/ arrive(1, ListRequests)
    \/ protect(1)
    \/ getExpensesFind(1)
    \/ getExpensesCount(1)

SpecList == InitList /\ [][NextList]_vars

\* The handler at the end of the request's chain
Handler(q) == Chain(q)[Len(Chain(q))]

Answered(q) == q.pc = "done"

\* The step is one of the request in slot r (every action moves pc or stage)
Moved(r) == <<req'[r].pc, req'[r].stage>> # <<req[r].pc, req[r].stage>>

(***************************************************************************)
(* C1  Expenses are scoped to the requester's account.  Every document a   *)
(* request's queries returned, counted, wrote or deleted is owned by the   *)
(* requester, every document in a list response is owned by the requester, *)
(* and a step that changes or removes a stored document is a step of a     *)
(* request of that document's owner (and never changes the owner).         *)
(***************************************************************************)
C1_OwnOnly ==
    \A r \in Slots :
       LET q == req[r]
       IN /\ \A i \in q.touched : ownerOf[i] = q.user
          /\ (q.pc = "count")
                => \A k \in DOMAIN q.data : q.data[k].user = q.user
          /\ (Answered(q) /\ q.status = 200 /\ Handler(q) = "getExpenses")
                => \A k \in DOMAIN q.data.data : q.data.data[k].user = q.user

C1_OwnWrites ==
    \A i \in DOMAIN store :
       /\ i \in DOMAIN store' => store'[i].user = store[i].user
       /\ (i \notin DOMAIN store' \/ store'[i] # store[i])
             => \E r \in Slots : /\ Moved(r)
                                 /\ req[r].user = store[i].user
                                 /\ req[r].id = i

C1_Scoped == []C1_OwnOnly /\ [][C1_OwnWrites]_vars

\* bob asked to delete an expense of alice, was answered 404, and the
\* expense is still stored
C1_Witness ==
    \E r \in Slots :
       /\ Answered(req[r]) /\ req[r].status = 404
       /\ req[r].user = "bob" /\ req[r].method = "DELETE"
       /\ req[r].id \in DOMAIN store
       /\ store[req[r].id].user = "alice"

(***************************************************************************)
(* C2  Every expense route is protected.  A request whose validation or    *)
(* handler has run, or that has accessed the store, has passed protect     *)
(* first and carries the user protect attached; a request protect answered *)
(* 401 has run nothing else, has accessed nothing, and none of its steps   *)
(* changes the store.                                                      *)
(***************************************************************************)
C2_ProtectFirst ==
    \A r \in Slots :
       LET q == req[r]
       IN /\ (Len(q.ran) > 0) => q.ran[1] = "protect"
          /\ (Len(q.ran) > 1 \/ q.accesses > 0 \/ q.touched # {})
                => q.token \in Users /\ q.user = q.token
          /\ (q.pc # "idle" /\ q.token \notin Users)
                => /\ q.ran \in {<<>>, <<"protect">>}
                   /\ q.accesses = 0
                   /\ Answered(q) => q.status = 401

C2_RejectedLeavesStore ==
    \A r \in Slots :
       (Moved(r) /\ req[r].pc = "start" /\ req[r].token \notin Users)
          => /\ store' = store
             /\ req'[r].status = 401

C2_Protected == []C2_ProtectFirst /\ [][C2_RejectedLeavesStore]_vars

\* A DELETE without a valid token was answered 401 while its target exists
C2_Witness ==
    \E r \in Slots :
       /\ Answered(req[r]) /\ req[r].status = 401
       /\ req[r].method = "DELETE"
       /\ req[r].id \in DOMAIN store

(***************************************************************************)
(* C3  (as claimed) Every handler accesses the store in one atomic step:   *)
(* no request makes a second access, so none meets a store changed since   *)
(* its first access.                                                       *)
(***************************************************************************)
C3_SingleAccess ==
    \A r \in Slots : req[r].accesses <= 1 /\ ~req[r].torn

(***************************************************************************)
(* C3  (amended) add, get-by-id and summary access the store once; list    *)
(* accesses it twice (find, countDocuments), stats three times (one        *)
(* aggregation each), update and delete twice (findOne, then save or       *)
(* findByIdAndDelete) once the expense is found and once when it is not;   *)
(* a request answered by validation, the cast of the id or protect         *)
(* accesses nothing.  Only list, stats, update and delete can meet a store *)
(* that another request changed between their accesses.                    *)
(***************************************************************************)
AccessesOf(handler, status) ==
    CASE status \in {400, 401} -> {0}
      [] handler = "addExpense" -> {1}
      [] handler = "getExpenseById" -> {1}
      [] handler = "getExpenseSummary" -> {1}
      [] handler = "getExpenses" -> {2}
      [] handler = "getExpenseStats" -> {3}
      [] handler \in {"updateExpense", "deleteExpense"} /\ status = 404 -> {1}
      [] handler \in {"updateExpense", "deleteExpense"} -> {2}

C3_AccessCounts ==
    \A r \in Slots :
       LET q == req[r]
       IN /\ Answered(q) => q.accesses \in AccessesOf(Handler(q), q.status)
          /\ q.torn => Handler(q) \in {"getExpenses", "getExpenseStats",
                                       "updateExpense", "deleteExpense"}

\* A list response whose page is empty although its count is 1: the
\* expense was created between find and countDocuments
C3_Witness ==
    \E r \in Slots :
       /\ Answered(req[r]) /\ req[r].status = 200
       /\ Handler(req[r]) = "getExpenses"
       /\ req[r].torn
       /\ Len(req[r].data.data) = 0
       /\ req[r].data.pagination.totalExpenses = 1

(***************************************************************************)
(* What the claims about the responses speak of                            *)
(***************************************************************************)
Owned(u) == {i \in DOMAIN store : store[i].user = u}

InRange(i, startDate, endDate) ==
    /\ startDate = NoNum \/ store[i].date >= startDate
    /\ endDate = NoNum \/ store[i].date <= endDate

CategoriesOf(ids) == {store[i].category : i \in ids}

SumOf(ids) == SumOver(ids, [i \in DOMAIN store |-> store[i].amount])

SumIn(ids, c) == SumOf({i \in ids : store[i].category = c})

Descending(groups) ==
    \A j, k \in DOMAIN groups :
       j < k => groups[j].totalAmount >= groups[k].totalAmount

EntriesTotal(groups) ==
    SeqSum([k \in DOMAIN groups |-> groups[k].totalAmount])

\* x is sum rounded to the hundredth
Rounded(x, sum) == x % 10 = 0 /\ x - sum <= 5 /\ sum - x <= 5

Distance(x, y) == IF x >= y THEN x - y ELSE y - x

SummaryAnswered(q) ==
    Answered(q) /\ q.status = 200 /\ Handler(q) = "getExpenseSummary"

(***************************************************************************)
(* C4  (as claimed) The summary of the requester's expenses is exact:      *)
(* totalExpenses is their number and totalAmount the sum of their amounts; *)
(* categoryBreakdown has exactly one entry per category present, whose     *)
(* totalAmount is the sum of the amounts in the category; the entries add  *)
(* up to totalAmount and are ordered by totalAmount descending; with no    *)
(* expenses the result is 0, 0 and an empty breakdown.                     *)
(***************************************************************************)
C4_ExactSummary ==
    \A r \in Slots :
       SummaryAnswered(req[r]) =>
          LET d == req[r].data
              ids == Owned(req[r].user)
              B == d.categoryBreakdown
          IN /\ d.totalExpenses = Cardinality(ids)
             /\ d.totalAmount = SumOf(ids)
             /\ {B[k].category : k \in DOMAIN B} = CategoriesOf(ids)
             /\ Len(B) = Cardinality(CategoriesOf(ids))
             /\ \A k \in DOMAIN B : B[k].totalAmount = SumIn(ids, B[k].category)
             /\ EntriesTotal(B) = d.totalAmount
             /\ Descending(B)
             /\ ids = {} => d.totalExpenses = 0 /\ d.totalAmount = 0 /\ B = <<>>

(***************************************************************************)
(* C4  (amended) totalExpenses is the number of the requester's expenses;  *)
(* totalAmount is the sum of their amounts rounded to two decimals;        *)
(* categoryBreakdown has exactly one entry per category present, whose     *)
(* totalAmount is the sum of the amounts in the category rounded to two    *)
(* decimals, ordered by that rounded totalAmount descending; the entries   *)
(* add up to totalAmount within half a cent per entry and half a cent, and *)
(* every total is exact and the entries add up to totalAmount when every   *)
(* amount is a whole number of cents; with no expenses the result is 0, 0  *)
(* and an empty breakdown.                                                 *)
(***************************************************************************)
C4_RoundedSummary ==
    \A r \in Slots :
       SummaryAnswered(req[r]) =>
          LET d == req[r].data
              ids == Owned(req[r].user)
              B == d.categoryBreakdown
          IN /\ d.totalExpenses = Cardinality(ids)
             /\ Rounded(d.totalAmount, SumOf(ids))
             /\ {B[k].category : k \in DOMAIN B} = CategoriesOf(ids)
             /\ Len(B) = Cardinality(CategoriesOf(ids))
             /\ \A k \in DOMAIN B :
                   Rounded(B[k].totalAmount, SumIn(ids, B[k].category))
             /\ Distance(EntriesTotal(B), d.totalAmount) <= 5 * (Len(B) + 1)
             /\ Descending(B)
             /\ (\A i \in ids : store[i].amount % 10 = 0)
                   => /\ d.totalAmount = SumOf(ids)
                      /\ \A k \in DOMAIN B :
                            B[k].totalAmount = SumIn(ids, B[k].category)
                      /\ EntriesTotal(B) = d.totalAmount
             /\ ids = {} => d.totalExpenses = 0 /\ d.totalAmount = 0 /\ B = <<>>

\* A summary of two categories whose entries do not add up to its
\* totalAmount, given beside an expense of the other user
C4_Witness ==
    \E r \in Slots :
       /\ SummaryAnswered(req[r])
       /\ Len(req[r].data.categoryBreakdown) = 2
       /\ EntriesTotal(req[r].data.categoryBreakdown) # req[r].data.totalAmount
       /\ \E i \in DOMAIN store : store[i].user # req[r].user

(***************************************************************************)
(* C5  getExpenseStats computes over exactly the requester's expenses      *)
(* dated within [startDate, endDate], a bound left out being no bound:     *)
(* total.totalExpenses is their number and total.totalAmount their sum,    *)
(* and total is all zero when there is none; byCategory has one group per  *)
(* category present, by totalAmount descending; monthly has at most 6      *)
(* groups, those of the most recent (year, month) among them, from the     *)
(* newest to the oldest.                                                   *)
(***************************************************************************)
StatsAnswered(q) ==
    Answered(q) /\ q.status = 200 /\ Handler(q) = "getExpenseStats"

MonthsOf(ids) ==
    {[year |-> Year(store[i].date), month |-> Month(store[i].date)] : i \in ids}

Later(a, b) == a.year > b.year \/ (a.year = b.year /\ a.month > b.month)

C5_Stats ==
    \A r \in Slots :
       StatsAnswered(req[r]) =>
          LET q == req[r]
              d == q.data
              ids == {i \in Owned(q.user) :
                         InRange(i, q.query.startDate, q.query.endDate)}
              C == d.byCategory
              M == d.monthly
              shown == {M[k].key : k \in DOMAIN M}
          IN /\ d.total.totalExpenses = Cardinality(ids)
             /\ d.total.totalAmount = SumOf(ids)
             /\ ids = {} => d.total = [totalAmount |-> 0, totalExpenses |-> 0,
                                       avgAmount |-> <<0, 1>>]
             /\ {C[k].key : k \in DOMAIN C} = CategoriesOf(ids)
             /\ Len(C) = Cardinality(CategoriesOf(ids))
             /\ Descending(C)
             /\ Len(M) <= 6
             /\ Len(M) = Min2(6, Cardinality(MonthsOf(ids)))
             /\ shown \subseteq MonthsOf(ids)
             /\ \A m \in MonthsOf(ids) \ shown : \A k \in shown : Later(k, m)
             /\ \A j, k \in DOMAIN M : j < k => Later(M[j].key, M[k].key)

\* Statistics over expenses of more than 6 months and of two categories:
\* monthly is cut to 6 groups that span two years
C5_Witness ==
    \E r \in Slots :
       /\ StatsAnswered(req[r])
       /\ Cardinality(MonthsOf(Owned(req[r].user))) > 6
       /\ Len(req[r].data.monthly) = 6
       /\ req[r].data.monthly[1].key.year # req[r].data.monthly[6].key.year
       /\ Len(req[r].data.byCategory) = 2

(***************************************************************************)
(* C6  getExpenses with page p and limit L returns at most L of the        *)
(* requester's expenses that match the category and date filters, those at *)
(* positions (p-1)*L to p*L-1 by date descending; totalExpenses is the     *)
(* number of matching expenses, totalPages = ceil(totalExpenses / L),      *)
(* hasNextPage is p < totalPages and hasPrevPage is p > 1.                 *)
(***************************************************************************)
ListAnswered(q) ==
    Answered(q) /\ q.status = 200 /\ Handler(q) = "getExpenses"

Matching(user, query) ==
    {i \in Owned(user) :
        /\ query.category = None \/ store[i].category = query.category
        /\ InRange(i, query.startDate, query.endDate)}

C6_Page ==
    \A r \in Slots :
       ListAnswered(req[r]) =>
          LET q == req[r]
              p == IF q.query.page = NoNum THEN 1 ELSE q.query.page
              L == IF q.query.limit = NoNum THEN 10 ELSE q.query.limit
              ids == Matching(q.user, q.query)
              n == Cardinality(ids)
              D == q.data.data
              P == q.data.pagination
              newer(k) == {i \in ids : store[i].date > D[k].date}
              notOlder(k) == {i \in ids : store[i].date >= D[k].date}
          IN /\ Len(D) <= L
             /\ Len(D) = IF n <= (p - 1) * L THEN 0 ELSE Min2(L, n - (p - 1) * L)
             /\ \A k \in DOMAIN D : D[k].id \in ids /\ D[k] = WithId(store, D[k].id)
             /\ \A j, k \in DOMAIN D : j < k => D[j].id # D[k].id
             /\ \A k \in DOMAIN D :
                   /\ Cardinality(newer(k)) <= (p - 1) * L + k - 1
                   /\ Cardinality(notOlder(k)) >= (p - 1) * L + k
             /\ P.totalExpenses = n
             /\ P.totalPages * L >= n /\ (P.totalPages - 1) * L < n
             /\ P.totalPages >= 0
             /\ P.hasNextPage = (p < P.totalPages)
             /\ P.hasPrevPage = (p > 1)

(***************************************************************************)
(* C6  (as claimed, the pages together) On an unchanged store the pages    *)
(* 1..totalPages of a listing are pairwise disjoint and together hold      *)
(* every matching expense exactly once, each page being as C6_Page says.   *)
(***************************************************************************)
C6_PagesPartition ==
    /\ C6_Page
    /\ (Len(pageLog.pages) > 0 /\ Len(pageLog.pages) = pageLog.totalPages)
          => /\ \A j, k \in DOMAIN pageLog.pages :
                   j < k => Range(pageLog.pages[j]) \cap Range(pageLog.pages[k]) = {}
             /\ UNION {Range(pageLog.pages[k]) : k \in DOMAIN pageLog.pages}
                   = Matching("alice", pageLog.base)

====
